---- MODULE Spec2Model ----
(***************************************************************************)
(* Verification model of three parts of qaac's read-side pipeline:         *)
(*   - PipedReader   (pipedreader.cpp): producer thread / pipe / consumer  *)
(*   - WavpackModule (wvpacksrc.cpp):   binding of the backend entry points*)
(*   - WavpackSource (wvpacksrc.cpp):   readSamples loop and bit alignment *)
(* The three parts share no state.  A behaviour exercises one of them and   *)
(* leaves the other two switched off.                                      *)
(***************************************************************************)
EXTENDS Integers, Sequences, FiniteSets, TLC

VARIABLES
    \* ---- PipedReader -------------------------------------------------
    bpf,            \* source()->getSampleFormat().mBytesPerFrame
    srcLen,         \* frames the upstream source holds in total
    srcPos,         \* frames the producer has pulled from upstream
    n,              \* inputThreadProc's local n (frames of the last read)
    ppc,            \* producer thread position
    pipe,           \* bytes queued in the pipe (a pending write included)
    m_readPipe,     \* read handle open?
    m_writePipe,    \* write handle open?
    m_thread,       \* 0: no thread handle, 1: handle of the producer thread
    m_position,
    cpc,            \* owner (consumer) thread position
    received,       \* bytes of the frames reported by readSamples so far
    last,           \* what the last readSamples call saw and returned
    hist,           \* history flags of the run
    \* ---- WavpackModule -----------------------------------------------
    mod,
    \* ---- WavpackSource -----------------------------------------------
    wv

pvars == <<bpf, srcLen, srcPos, n, ppc, pipe, m_readPipe, m_writePipe,
           m_thread, m_position, cpc, received, last, hist>>
vars == <<pvars, mod, wv>>

Min(a, b) == IF a <= b THEN a ELSE b

(***************************************************************************)
(* Bounds.  PipeCapacity and ChunkFrames stand for the program's 0x8000    *)
(* bytes and 4096 frames, scaled down so that byte sequences stay small.   *)
(***************************************************************************)
MaxBpf == 3
MaxSrcFrames == 3
MaxReq == 2
PipeCapacity == 4
ChunkFrames == 2

(***************************************************************************)
(* The upstream source: a finite deterministic byte stream.  Byte i of the *)
(* stream is tagged with its index, so any loss, duplication or reordering *)
(* is visible.                                                             *)
(***************************************************************************)
UpstreamBytes(from, to) == [i \in 1..(to - from) |-> from + i]
DirectRead == UpstreamBytes(0, srcLen * bpf)

Drop(s, k) == SubSeq(s, k + 1, Len(s))
Take(s, k) == SubSeq(s, 1, k)

NoRead == [req |-> -1, nread |-> 0, ret |-> 0, avail |-> 0,
           readerOpen |-> FALSE, writerOpen |-> FALSE]
NoHist == [blocked |-> FALSE, faulted |-> FALSE, zeroReq |-> FALSE,
           writeFailed |-> FALSE, started |-> 0,
           touched |-> {}]   \* upstream methods the consumer thread has
                             \* called while the producer thread was running

PipeOff ==
    /\ bpf = 1 /\ srcLen = 0 /\ srcPos = 0 /\ n = 0 /\ ppc = "nothread"
    /\ pipe = <<>> /\ m_readPipe = FALSE /\ m_writePipe = FALSE
    /\ m_thread = 0 /\ m_position = 0 /\ cpc = "off" /\ received = <<>>
    /\ last = NoRead /\ hist = NoHist

InitPipe ==
    /\ bpf \in 1..MaxBpf
    /\ srcLen \in 0..MaxSrcFrames
    /\ srcPos = 0 /\ n = 0 /\ ppc = "nothread"
    /\ pipe = <<>> /\ m_readPipe = FALSE /\ m_writePipe = FALSE
    /\ m_thread = 0 /\ m_position = 0 /\ cpc = "new" /\ received = <<>>
    /\ last = NoRead /\ hist = NoHist

(***************************************************************************)
(* PipedReader::PipedReader: m_thread(0), m_position(0), CreatePipe, both  *)
(* handles stored.  No thread is created here.                             *)
(***************************************************************************)
CtorStartsThread ==
    /\ cpc = "new"
    /\ cpc' = "ready"
    /\ m_thread' = 1 /\ ppc' = "read"
    /\ m_position' = 0
    /\ pipe' = <<>>
    /\ m_readPipe' = TRUE /\ m_writePipe' = TRUE
    /\ UNCHANGED <<mod, wv, bpf, srcLen, srcPos, n, received, last, hist>>

PipedReader_ctor ==
    /\ cpc = "new"
    /\ cpc' = "ready"
    /\ m_thread' = 0
    /\ m_position' = 0
    /\ pipe' = <<>>
    /\ m_readPipe' = TRUE /\ m_writePipe' = TRUE
    /\ UNCHANGED <<mod, wv, bpf, srcLen, srcPos, n, ppc, received, last, hist>>

(***************************************************************************)
(* Starting the producer thread is done by the owner after construction    *)
(* (pipedreader.h, not part of the sources at hand): the thread handle is  *)
(* stored in m_thread and the thread runs inputThreadProc.                 *)
(***************************************************************************)
start ==
    /\ cpc = "ready"
    /\ m_thread = 0
    /\ m_thread' = 1
    /\ ppc' = "read"
    /\ hist' = [hist EXCEPT !.started = @ + 1]
    /\ UNCHANGED <<mod, wv, bpf, srcLen, srcPos, n, pipe, m_readPipe, m_writePipe,
                   m_position, cpc, received, last>>

(***************************************************************************)
(* The pipe (NT byte-mode anonymous pipe).  A write queues all of its      *)
(* bytes at once; it completes when the queued bytes fit the pipe's quota  *)
(* and stays pending otherwise.  A read takes min(request, queued) bytes,  *)
(* the bytes of a pending write included, and waits while nothing is       *)
(* queued and the write end is open.  Closing the read end discards the    *)
(* queued bytes and fails a pending or later write.                        *)
(***************************************************************************)
WriteFits(q) == Len(q) <= PipeCapacity
ReadReady(req) == Len(pipe) > 0 \/ ~m_writePipe \/ req = 0

(***************************************************************************)
(* PipedReader::readSamples                                                *)
(***************************************************************************)
RequestFramesOnly(nsamples, b) == nsamples
\* nsamples * bpf, the byte count handed to ReadFile
RequestBytes(nsamples, b) == nsamples * b

\* nsamples = nread / bpf
FramesOf(nread, b) == nread \div b

NeverRelease(nread) == FALSE
\* if (nread == 0) m_readPipe.reset();
ReleaseOnZero(nread) == nread = 0

AdvanceByBytes(pos, frames, bytes) == pos + bytes
\* m_position += nsamples;
AdvancePosition(pos, frames, bytes) == pos + frames

ProducerRunning == ppc \notin {"nothread", "done"}

\* the methods of source() that readSamples calls: line 27
ConsumerSourceCalls == {"getSampleFormat"}

readSamples(nsamples) ==
    /\ cpc = "ready"
    /\ LET req == RequestBytes(nsamples, bpf)
           nread == IF m_readPipe THEN Min(req, Len(pipe)) ELSE 0
           ret == FramesOf(nread, bpf)
       IN  /\ m_readPipe => ReadReady(req)
           /\ last' = [req |-> nsamples, nread |-> nread, ret |-> ret,
                       avail |-> Len(pipe), readerOpen |-> m_readPipe,
                       writerOpen |-> m_writePipe]
           /\ IF m_readPipe /\ ReleaseOnZero(nread)
                 THEN m_readPipe' = FALSE /\ pipe' = <<>>
                 ELSE m_readPipe' = m_readPipe /\ pipe' = Drop(pipe, nread)
           /\ received' = received \o Take(pipe, ret * bpf)
           /\ m_position' = AdvancePosition(m_position, ret, nread)
           /\ hist' = [hist EXCEPT
                        !.zeroReq = @ \/ nsamples = 0,
                        !.touched = IF ProducerRunning
                                      THEN @ \cup ConsumerSourceCalls
                                      ELSE @]
    /\ UNCHANGED <<mod, wv, bpf, srcLen, srcPos, n, ppc, m_writePipe, m_thread, cpc>>

(***************************************************************************)
(* PipedReader::~PipedReader.  With a thread: close the read end, then     *)
(* wait for the thread.  Without one the body is skipped; the members'     *)
(* destructors close both handles in either case.                          *)
(***************************************************************************)
DtorWaitsFirst ==
    /\ cpc = "ready"
    /\ IF m_thread # 0
          THEN /\ cpc' = "dtor_wait"
               /\ UNCHANGED <<m_readPipe, pipe, m_writePipe>>
          ELSE /\ cpc' = "destroyed"
               /\ m_readPipe' = FALSE /\ pipe' = <<>>
               /\ m_writePipe' = FALSE
    /\ UNCHANGED <<mod, wv, bpf, srcLen, srcPos, n, ppc, m_thread, m_position,
                   received, last, hist>>

dtor_begin ==
    /\ cpc = "ready"
    /\ m_readPipe' = FALSE /\ pipe' = <<>>
    /\ IF m_thread # 0
          THEN cpc' = "dtor_wait" /\ UNCHANGED m_writePipe
          ELSE cpc' = "destroyed" /\ m_writePipe' = FALSE
    /\ UNCHANGED <<mod, wv, bpf, srcLen, srcPos, n, ppc, m_thread, m_position,
                   received, last, hist>>

DtorNoWait ==
    /\ cpc = "dtor_wait"
    /\ cpc' = "destroyed"
    /\ m_readPipe' = FALSE /\ pipe' = <<>>
    /\ UNCHANGED <<mod, wv, bpf, srcLen, srcPos, n, ppc, m_writePipe, m_thread,
                   m_position, received, last, hist>>

\* WaitForSingleObject(m_thread.get(), INFINITE) returns
dtor_wait ==
    /\ cpc = "dtor_wait"
    /\ ppc = "done"
    /\ cpc' = "destroyed"
    /\ m_readPipe' = FALSE /\ pipe' = <<>>
    /\ UNCHANGED <<mod, wv, bpf, srcLen, srcPos, n, ppc, m_writePipe, m_thread,
                   m_position, received, last, hist>>

(***************************************************************************)
(* PipedReader::inputThreadProc                                            *)
(***************************************************************************)
\* src->readSamples(bp, 4096): any positive count up to the request while
\* frames remain, 0 at the end.
UpstreamReturns == IF srcPos < srcLen
                     THEN 1..Min(ChunkFrames, srcLen - srcPos)
                     ELSE {0}

thread_read ==
    /\ ppc = "read"
    /\ \E k \in UpstreamReturns :
          /\ n' = k
          /\ srcPos' = srcPos + k
          /\ ppc' = IF k > 0 THEN "write" ELSE "close"
    /\ UNCHANGED <<mod, wv, bpf, srcLen, pipe, m_readPipe, m_writePipe, m_thread,
                   m_position, cpc, received, last, hist>>

FaultSkipsClose ==
    /\ ppc = "read"
    /\ ppc' = "done"
    /\ hist' = [hist EXCEPT !.faulted = TRUE]
    /\ UNCHANGED <<mod, wv, bpf, srcLen, srcPos, n, pipe, m_readPipe, m_writePipe,
                   m_thread, m_position, cpc, received, last>>

\* the upstream call throws: caught by catch (...)
thread_fault ==
    /\ ppc = "read"
    /\ ppc' = "close"
    /\ hist' = [hist EXCEPT !.faulted = TRUE]
    /\ UNCHANGED <<mod, wv, bpf, srcLen, srcPos, n, pipe, m_readPipe, m_writePipe,
                   m_thread, m_position, cpc, received, last>>

WriteFramesOnly(k, b) == k
\* n * bpf, the byte count handed to WriteFile
WriteBytes(k, b) == k * b

RetryAfterFailedWrite == "read"
\* WriteFile returned FALSE: the while condition fails, the loop is left
AfterFailedWrite == "close"

\* WriteFile(ph, bp, n * bpf, &nb, 0) is called
thread_write ==
    /\ ppc = "write"
    /\ IF ~m_readPipe
          THEN /\ ppc' = AfterFailedWrite
               /\ hist' = [hist EXCEPT !.writeFailed = TRUE]
               /\ UNCHANGED pipe
          ELSE LET first == (srcPos - n) * bpf
                   q == pipe \o UpstreamBytes(first, first + WriteBytes(n, bpf))
               IN  /\ pipe' = q
                   /\ ppc' = IF WriteFits(q) THEN "read" ELSE "blocked"
                   /\ hist' = [hist EXCEPT !.blocked = @ \/ ~WriteFits(q)]
    /\ UNCHANGED <<mod, wv, bpf, srcLen, srcPos, n, m_readPipe, m_writePipe, m_thread,
                   m_position, cpc, received, last>>

\* a pending WriteFile returns: the reader made room, or closed its end
thread_unblock ==
    /\ ppc = "blocked"
    /\ IF ~m_readPipe
          THEN /\ ppc' = AfterFailedWrite
               /\ hist' = [hist EXCEPT !.writeFailed = TRUE]
          ELSE /\ WriteFits(pipe)
               /\ ppc' = "read"
               /\ UNCHANGED hist
    /\ UNCHANGED <<mod, wv, bpf, srcLen, srcPos, n, pipe, m_readPipe, m_writePipe,
                   m_thread, m_position, cpc, received, last>>

ThreadEndsOpen ==
    /\ ppc = "close"
    /\ ppc' = "done"
    /\ UNCHANGED <<mod, wv, bpf, srcLen, srcPos, n, pipe, m_readPipe, m_writePipe,
                   m_thread, m_position, cpc, received, last, hist>>

\* m_writePipe.reset(); the thread ends
thread_close ==
    /\ ppc = "close"
    /\ m_writePipe' = FALSE
    /\ ppc' = "done"
    /\ UNCHANGED <<mod, wv, bpf, srcLen, srcPos, n, pipe, m_readPipe, m_thread,
                   m_position, cpc, received, last, hist>>

inputThreadProc ==
    \/ thread_read
    \/ thread_fault
    \/ thread_write
    \/ thread_unblock
    \/ thread_close

Destructor == dtor_begin \/ dtor_wait

NextPipe ==
    \/ PipedReader_ctor
    \/ start
    \/ \E k \in 0..MaxReq : readSamples(k)
    \/ Destructor
    \/ inputThreadProc

(***************************************************************************)
(* WavpackModule::WavpackModule                                            *)
(*                                                                         *)
(* mod.libOk:   whether the library at the given path can be loaded        *)
(* mod.missing: the entry points the library does not export               *)
(* mod.dl:      m_dl -- "none" (never loaded), "loaded", "released"        *)
(* mod.table:   the entry points whose member pointer holds an address     *)
(***************************************************************************)
MaxMissing == 2

EntryPoints == <<"WavpackGetLibraryVersionString", "WavpackOpenFileInputEx",
                 "WavpackCloseFile", "WavpackGetBitsPerSample",
                 "WavpackGetChannelMask", "WavpackGetMode",
                 "WavpackGetNumChannels", "WavpackGetNumSamples",
                 "WavpackGetNumTagItems", "WavpackGetSampleIndex",
                 "WavpackGetSampleRate", "WavpackGetTagItem",
                 "WavpackGetTagItemIndexed", "WavpackSeekSample",
                 "WavpackUnpackSamples">>
AllEntryPoints == {EntryPoints[i] : i \in 1..Len(EntryPoints)}

ModOff == mod = [pc |-> "off", libOk |-> FALSE, missing |-> {},
                 dl |-> "none", table |-> {}]

InitMod ==
    \E ok \in BOOLEAN :
    \E miss \in {m \in SUBSET AllEntryPoints : Cardinality(m) <= MaxMissing} :
        mod = [pc |-> "new", libOk |-> ok, missing |-> miss,
               dl |-> "none", table |-> {}]

\* the CHECK(X = m_dl.fetch(name)) lines in order: the pointers bound before
\* the first fetch that returns null, and whether all were bound
RECURSIVE Bind(_, _, _)
Bind(i, missing, table) ==
    IF i > Len(EntryPoints) THEN [ok |-> TRUE, table |-> table]
    ELSE IF EntryPoints[i] \in missing THEN [ok |-> FALSE, table |-> table]
    ELSE Bind(i + 1, missing, table \cup {EntryPoints[i]})

CtorKeepsLibrary(libOk, missing) ==
    IF ~libOk THEN [dl |-> "none", table |-> {}]
    ELSE [dl |-> "loaded", table |-> Bind(1, missing, {}).table]

WavpackModule_bind(libOk, missing) ==
    IF ~libOk THEN [dl |-> "none", table |-> {}]
    ELSE LET b == Bind(1, missing, {})
         IN  [dl |-> IF b.ok THEN "loaded" ELSE "released", table |-> b.table]

WavpackModule_ctor ==
    /\ mod.pc = "new"
    /\ LET r == WavpackModule_bind(mod.libOk, mod.missing)
       IN  mod' = [mod EXCEPT !.pc = "done", !.dl = r.dl, !.table = r.table]
    /\ UNCHANGED <<pvars, wv>>

\* bool loaded() const { return m_dl.loaded(); }
loaded == mod.dl = "loaded"

NextMod == WavpackModule_ctor

(***************************************************************************)
(* WavpackSource::readSamples                                              *)
(*                                                                         *)
(* A 32-bit word is the set of its bit positions that are 1 (0 = least     *)
(* significant, 31 = most significant), so a shift drops what leaves the   *)
(* word.  bp[i] <<= shifts on a 32-bit int is the shift of the bit pattern *)
(* (the x86 builds of the program).                                        *)
(***************************************************************************)
MaxChannels == 2
MaxWvFrames == 3
MaxWvReq == 3

WordBits == 0..31
BitDepths == {8, 16, 20, 24, 32}

Shl(w, s) == {b + s : b \in w} \cap WordBits

\* (mBitsPerChannel + 7) & ~7
RoundUpToByte(bits) == ((bits + 7) \div 8) * 8

ShiftsUnrounded(bits) == 32 - bits

\* int shifts = 32 - ((m_asbd.mBitsPerChannel + 7) & ~7);
Shifts(bits) == 32 - RoundUpToByte(bits)

(***************************************************************************)
(* The backend stream.  Sample k (counting every channel of every frame    *)
(* from 0) has the significant value SampleValue(k): its index in the low  *)
(* bits, so that samples differ, and its top bit set or not.  The backend  *)
(* hands it out in the layout of the comment in readSamples: significant   *)
(* bits at the top of the low RoundUpToByte(bits)/8 bytes; the bytes above *)
(* are zero, or copies of the sign bit.                                    *)
(***************************************************************************)
IndexBits(k) == {j \in 0..3 : (k \div (2 ^ j)) % 2 = 1}
SampleValue(k) == IndexBits(k) \cup (IF wv.top THEN {wv.bits - 1} ELSE {})
BackendWord(k) ==
    LET r == RoundUpToByte(wv.bits)
        v == SampleValue(k)
    IN  {b + (r - wv.bits) : b \in v}
          \cup (IF wv.signExt /\ (wv.bits - 1) \in v THEN r..31 ELSE {})

Unwritten == [k |-> -1, word |-> {}]

WvFields(pc, bits, channels, len, top, signExt) ==
    [pc |-> pc, bits |-> bits, channels |-> channels, len |-> len,
     top |-> top, signExt |-> signExt,
     pos |-> 0,          \* frames the backend has handed out
     nsamples |-> 0, total |-> 0, bp |-> 0, shifts |-> 0,
     buffer |-> <<>>,    \* the caller's buffer, one cell per int
     start |-> 0,        \* pos when the current call began
     calls |-> 0,        \* UnpackSamples calls of the current call
     err |-> FALSE,      \* the backend returned a negative count
     short |-> FALSE,    \* an UnpackSamples call returned less than asked
     ret |-> -1]         \* value returned by the last call

WvOff == wv = WvFields("off", 32, 1, 0, FALSE, FALSE)

InitWv ==
    \E bits \in BitDepths, ch \in 1..MaxChannels, len \in 0..MaxWvFrames,
       top \in BOOLEAN, se \in BOOLEAN :
        wv = WvFields("idle", bits, ch, len, top, se)

\* entry of readSamples(buffer, nsamples): lines 149-151
wv_readSamples(nsamples) ==
    /\ wv.pc = "idle"
    /\ wv' = [wv EXCEPT !.pc = "loop",
                        !.nsamples = nsamples,
                        !.shifts = Shifts(wv.bits),
                        !.total = 0,
                        !.bp = 0,
                        !.buffer = [i \in 1..(nsamples * wv.channels) |-> Unwritten],
                        !.start = wv.pos,
                        !.calls = 0,
                        !.err = FALSE,
                        !.short = FALSE,
                        !.ret = -1]
    /\ UNCHANGED <<pvars, mod>>

\* m_module.UnpackSamples(wpc, bp, count): a positive count up to the
\* request while frames remain, 0 at the end of the stream, negative on error
UnpackReturns(count) ==
    (IF wv.pos < wv.len THEN 1..Min(count, wv.len - wv.pos) ELSE {0}) \cup {-1}

\* bp += rc, bp being an int*
Advance(bp, rc, channels) == bp + rc

RemainingWhole(nsamples, total) == nsamples
\* nsamples - total, the count asked of UnpackSamples
Remaining(nsamples, total) == nsamples - total

BreakOnNegative(rc) == rc < 0
\* if (rc <= 0) break;
LoopBreaks(rc) == rc <= 0

\* one pass of the while loop: lines 152-163
wv_unpack ==
    /\ wv.pc = "loop"
    /\ wv.total < wv.nsamples
    /\ \E rc \in UnpackReturns(Remaining(wv.nsamples, wv.total)) :
        IF LoopBreaks(rc)
        THEN wv' = [wv EXCEPT !.pc = "idle", !.ret = wv.total,
                              !.calls = @ + 1, !.err = rc < 0]
        ELSE LET cnt == rc * wv.channels
                 first == wv.pos * wv.channels
                 unpacked == [i \in 1..cnt |-> BackendWord(first + i - 1)]
                 cell(i) == IF i > wv.bp /\ i <= wv.bp + cnt
                              THEN [k |-> first + i - wv.bp - 1,
                                    word |-> IF wv.shifts # 0
                                               THEN Shl(unpacked[i - wv.bp], wv.shifts)
                                               ELSE unpacked[i - wv.bp]]
                              ELSE wv.buffer[i]
             IN  wv' = [wv EXCEPT
                     !.buffer = [i \in 1..Len(wv.buffer) |-> cell(i)],
                     !.total = @ + rc,
                     !.bp = Advance(@, rc, wv.channels),
                     !.pos = @ + rc,
                     !.calls = @ + 1,
                     !.short = @ \/ rc < Remaining(wv.nsamples, wv.total)]
    /\ UNCHANGED <<pvars, mod>>

\* the loop condition fails: return total
wv_return ==
    /\ wv.pc = "loop"
    /\ wv.total >= wv.nsamples
    /\ wv' = [wv EXCEPT !.pc = "idle", !.ret = wv.total]
    /\ UNCHANGED <<pvars, mod>>

NextWv ==
    \/ \E k \in 0..MaxWvReq : wv_readSamples(k)
    \/ wv_unpack
    \/ wv_return

(***************************************************************************)
(* The specification: one of the three parts runs.                         *)
(***************************************************************************)
Init ==
    \/ InitPipe /\ ModOff /\ WvOff
    \/ PipeOff /\ InitMod /\ WvOff
    \/ PipeOff /\ ModOff /\ InitWv

Next == NextPipe \/ NextMod \/ NextWv

Spec == Init /\ [][Next]_vars

\* both threads of a PipedReader keep being scheduled, and the upstream
\* and backend calls return
FairSpec ==
    /\ Spec
    /\ WF_vars(inputThreadProc)
    /\ WF_vars(Destructor)
    /\ WF_vars(wv_unpack \/ wv_return)

(***************************************************************************)
(* A consumer that drains the reader: the thread is started, every request *)
(* is positive, the upstream does not fail and the reader is not destroyed.*)
(* Both threads keep being scheduled.                                      *)
(***************************************************************************)
InitDrain == InitPipe /\ ModOff /\ WvOff

DrainRead == \E k \in 1..MaxReq : readSamples(k)

DrainThread ==
    \/ thread_read
    \/ thread_write
    \/ thread_unblock
    \/ thread_close

NextDrain ==
    \/ PipedReader_ctor
    \/ start
    \/ DrainRead
    \/ DrainThread

DrainSpec ==
    /\ InitDrain
    /\ [][NextDrain]_vars
    /\ WF_vars(PipedReader_ctor)
    /\ WF_vars(start)
    /\ WF_vars(DrainRead)
    /\ WF_vars(DrainThread)

(***************************************************************************)
(* Properties                                                              *)
(***************************************************************************)
\* the consumer's last readSamples call returned 0
ReadReturnedZero == cpc # "off" /\ last.req >= 0 /\ last.ret = 0
CapacityBelowTotal == PipeCapacity < srcLen * bpf

\* C1 (as stated): for every sequence of request sizes, once a consumer read
\* has returned 0 the bytes of the frames reported so far are exactly the
\* bytes of the upstream source (capacity smaller than the total data).
C1_Original ==
    (ReadReturnedZero /\ ~hist.faulted /\ CapacityBelowTotal)
        => received = DirectRead

\* C1 (amended): the same for every sequence of positive request sizes; and
\* at every moment the bytes reported so far are a prefix of the upstream
\* bytes.
C1_ByteForByte ==
    /\ (ReadReturnedZero /\ ~hist.zeroReq /\ ~hist.faulted /\ CapacityBelowTotal)
          => received = DirectRead
    /\ (~hist.zeroReq /\ Len(received) <= Len(DirectRead))
          => received = Take(DirectRead, Len(received))

C1_Witness ==
    /\ ReadReturnedZero /\ last.req > 0 /\ ~hist.zeroReq /\ ~hist.faulted
    /\ CapacityBelowTotal /\ hist.blocked
    /\ received = DirectRead /\ Len(received) > PipeCapacity

\* C2: once the destructor has closed the read end and waits for the
\* producer thread, the thread eventually terminates and the destructor
\* eventually returns, wherever the thread was (upstream read, pending
\* write, finished).
C2_DestructorReturns ==
    (cpc = "dtor_wait") ~> (cpc = "destroyed" /\ ppc = "done")

C2_Witness ==
    /\ cpc = "destroyed" /\ ppc = "done"
    /\ hist.blocked /\ hist.writeFailed /\ srcPos < srcLen

\* C3 (as stated): whenever the consumer has drained the reader to
\* end-of-stream (capacity smaller than the upstream total), the producer
\* blocked in its write at least once, no write failed and the bytes
\* delivered equal the bytes the upstream produced.
C3_Original ==
    (ReadReturnedZero /\ ~hist.zeroReq /\ ~hist.faulted /\ CapacityBelowTotal)
        => (hist.blocked /\ ~hist.writeFailed
              /\ Len(received) = srcPos * bpf)

\* C3 (amended): draining with positive request sizes, no write fails, no
\* byte is dropped and the bytes delivered equal the bytes the upstream
\* produced; the producer is held in its write whenever more than the
\* capacity is queued.
C3_Backpressure ==
    /\ (ReadReturnedZero /\ ~hist.zeroReq /\ CapacityBelowTotal)
          => /\ ~hist.writeFailed
             /\ Len(received) = srcPos * bpf
             /\ ~hist.faulted => srcPos = srcLen
    /\ Len(pipe) > PipeCapacity => ppc = "blocked"

C3_Witness ==
    /\ ReadReturnedZero /\ last.req > 0 /\ ~hist.zeroReq /\ CapacityBelowTotal
    /\ hist.blocked /\ ~hist.writeFailed
    /\ Len(received) = srcLen * bpf

C5_WholeFrames ==
    cpc # "off" => (last.nread % bpf = 0 /\ Len(pipe) % bpf = 0)

C5_Witness ==
    /\ last.nread > 0 /\ PipeCapacity % bpf # 0 /\ hist.blocked
    /\ last.avail > PipeCapacity

\* a return of 0 at the end of the stream
PipeAtEnd == ~last.writerOpen /\ last.avail = 0
WvAtEnd == wv.calls > 0 /\ (wv.err \/ wv.pos = wv.len)

\* C6 (as stated): for every request size, both readSamples return between
\* 0 and maxFrames frames, and 0 only at end-of-stream.
C6_Original ==
    /\ (cpc # "off" /\ last.req >= 0)
          => /\ last.ret \in 0..last.req
             /\ last.ret = 0 => (PipeAtEnd \/ ~last.readerOpen)
    /\ (wv.pc = "idle" /\ wv.ret >= 0)
          => /\ wv.ret \in 0..wv.nsamples
             /\ wv.ret = 0 => WvAtEnd

\* C6 (amended): both readSamples never return more than maxFrames; when
\* every request is positive, 0 is returned only at end-of-stream.
C6_ReturnWithinRequest ==
    /\ (cpc # "off" /\ last.req >= 0)
          => /\ last.ret \in 0..last.req
             /\ (last.ret = 0 /\ ~hist.zeroReq) => PipeAtEnd
    /\ (wv.pc = "idle" /\ wv.ret >= 0)
          => /\ wv.ret \in 0..wv.nsamples
             /\ (wv.ret = 0 /\ wv.nsamples > 0) => WvAtEnd

C6_Witness ==
    /\ wv.pc = "idle" /\ wv.ret = 0 /\ wv.nsamples > 0
    /\ ~wv.err /\ wv.len > 0 /\ wv.pos = wv.len

\* C7: after construction loaded() is true exactly when the library loaded
\* and all entry points resolved; then the table is complete; otherwise a
\* loaded library has been released.
C7_AllOrNothing ==
    mod.pc = "done"
        => /\ loaded <=> (mod.libOk /\ mod.missing = {})
           /\ loaded => mod.table = AllEntryPoints
           /\ (mod.libOk /\ mod.missing # {}) => mod.dl = "released"
           /\ ~mod.libOk => mod.dl = "none"

C7_Witness ==
    /\ mod.pc = "done" /\ mod.libOk
    /\ mod.missing = {"WavpackUnpackSamples"}
    /\ ~loaded /\ mod.dl = "released"
    /\ Cardinality(mod.table) = Len(EntryPoints) - 1

\* C8: with a backend that returns a positive count while frames remain and
\* 0 at the end, readSamples(buffer, n) returns min(n, frames remaining),
\* having consumed exactly that many frames, after at most n + 1 calls of
\* the unpack entry point.
C8_ExactCount ==
    /\ (wv.pc = "idle" /\ wv.ret >= 0 /\ ~wv.err)
          => /\ wv.ret = Min(wv.nsamples, wv.len - wv.start)
             /\ wv.pos = wv.start + wv.ret
    /\ wv.pc # "off" => wv.calls <= wv.nsamples + 1

C8_Witness ==
    /\ wv.pc = "idle" /\ ~wv.err /\ wv.short
    /\ wv.nsamples >= 2 /\ wv.ret = wv.nsamples

\* C9: when readSamples returns total, the first total * channels cells of
\* the buffer hold the backend's samples in stream order, each shifted once.
C9_BufferInStreamOrder ==
    (wv.pc = "idle" /\ wv.ret >= 0)
        => \A i \in 1..(wv.ret * wv.channels) :
              LET k == wv.start * wv.channels + i - 1
              IN  /\ wv.buffer[i].k = k
                  /\ wv.buffer[i].word = Shl(BackendWord(k), 32 - RoundUpToByte(wv.bits))

\* C10: every sample readSamples has stored has its significant bits at the
\* top of the word, its most significant bit at bit 31; a 32-bit sample is
\* stored as the backend gave it.
C10_MsbAtBit31 ==
    wv.pc # "off"
        => \A i \in 1..Len(wv.buffer) :
              wv.buffer[i].k >= 0
                 => LET v == SampleValue(wv.buffer[i].k)
                        w == wv.buffer[i].word
                    IN  /\ w = {b + (32 - wv.bits) : b \in v}
                        /\ (31 \in w) <=> ((wv.bits - 1) \in v)
                        /\ wv.bits = 32 => w = BackendWord(wv.buffer[i].k)

C10_Witness ==
    /\ wv.bits = 20 /\ wv.top /\ wv.signExt /\ wv.pc = "idle" /\ wv.ret >= 1
    /\ 31 \in wv.buffer[1].word

\* readSamples has computed its shift (a call is running or has returned)
ShiftComputed == wv.pc = "loop" \/ (wv.pc = "idle" /\ wv.ret >= 0)

\* C11 (as stated): the shift readSamples computes is 12 for 20 bits, 16 for
\* 16 bits, 8 for 24 bits and 0 for 32 bits.
C11_Original ==
    ShiftComputed
        => /\ wv.bits = 20 => wv.shifts = 12
           /\ wv.bits = 16 => wv.shifts = 16
           /\ wv.bits = 24 => wv.shifts = 8
           /\ wv.bits = 32 => wv.shifts = 0

\* C11 (amended): the shift readSamples computes is 32 minus the bit depth
\* rounded up to whole bytes: 24 for 8 bits, 16 for 16 bits, 8 for 20 bits,
\* 8 for 24 bits and 0 for 32 bits.
C11_ShiftTable ==
    ShiftComputed
        => /\ wv.bits = 8 => wv.shifts = 24
           /\ wv.bits = 16 => wv.shifts = 16
           /\ wv.bits = 20 => wv.shifts = 8
           /\ wv.bits = 24 => wv.shifts = 8
           /\ wv.bits = 32 => wv.shifts = 0
           /\ \E bytes \in 1..4 :
                 /\ 8 * (bytes - 1) < wv.bits /\ wv.bits <= 8 * bytes
                 /\ wv.shifts = 32 - 8 * bytes

C11_Witness == wv.pc = "loop" /\ wv.bits = 20 /\ wv.shifts = 8

\* C12: a readSamples call that gets zero bytes from the pipe releases the
\* read end; from then on the read end stays released and every readSamples
\* call returns 0 at once, without a ReadFile on the pipe (last.readerOpen
\* tells whether the call did one) and without changing the position.
C12_StickyEof ==
    /\ [](cpc # "off" =>
            /\ (last.req >= 0 /\ last.readerOpen /\ last.nread = 0)
                  => ~m_readPipe
            /\ (last.req >= 0 /\ ~last.readerOpen)
                  => (last.ret = 0 /\ last.nread = 0)
            /\ (cpc = "ready" /\ ~m_readPipe)
                  => \A k \in 0..MaxReq : ENABLED readSamples(k))
    /\ [][(cpc = "ready" /\ ~m_readPipe)
             => /\ ~m_readPipe'
                /\ m_position' = m_position
                /\ received' = received
                /\ pipe' = pipe]_vars

C12_Witness ==
    /\ cpc = "ready" /\ ~m_readPipe /\ ~hist.zeroReq
    /\ last.req > 0 /\ ~last.readerOpen /\ last.ret = 0
    /\ m_position > 0

\* C13: the producer thread ends only by way of closing the write end, also
\* after a fault; the step in which the fault is caught changes nothing the
\* consumer thread sees; and a consumer that reads on with positive sizes
\* gets every byte written before the fault and then 0.
C13_FaultBecomesEof ==
    /\ [](cpc # "off" =>
            /\ ppc = "done" => ~m_writePipe
            /\ hist.faulted => ppc \in {"close", "done"}
            /\ (hist.faulted /\ ReadReturnedZero /\ ~hist.zeroReq)
                  => received = UpstreamBytes(0, srcPos * bpf))
    /\ [][(ppc' = "done" /\ ppc # "done")
             => (ppc = "close" /\ m_writePipe /\ ~m_writePipe')]_vars
    /\ [][(hist'.faulted /\ ~hist.faulted)
             => UNCHANGED <<cpc, m_position, received, last, pipe,
                            m_readPipe, m_thread>>]_vars

C13_Witness ==
    /\ hist.faulted /\ ppc = "done" /\ ~m_writePipe
    /\ ReadReturnedZero /\ last.req > 0 /\ ~hist.zeroReq
    /\ Len(received) > 0 /\ srcPos < srcLen

\* C14: the consumer thread, in readSamples or in the destructor, never
\* calls a method of the wrapped upstream source while the producer thread
\* is running.
C14_ProducerOwnsSource == hist.touched = {}

\* C15: when the destructor has returned, no producer thread of the instance
\* is running: a thread that was started has ended and has closed its write
\* end.
C15_NoThreadLeftRunning ==
    cpc = "destroyed"
        => /\ ~ProducerRunning
           /\ m_thread # 0 => (ppc = "done" /\ ~m_writePipe)

C15_Witness ==
    /\ cpc = "destroyed" /\ m_thread # 0 /\ ppc = "done"
    /\ hist.writeFailed /\ ~hist.blocked

\* C16: while the destructor waits for the thread, the read end is closed.
C16_CloseBeforeWait == cpc = "dtor_wait" => ~m_readPipe

C16_Witness ==
    /\ cpc = "dtor_wait" /\ ~m_readPipe /\ ppc = "blocked"
    /\ last.req = -1

\* C17: once a write has failed, the producer is closing its write end or
\* has ended; no step after the failure pulls frames from upstream or queues
\* bytes in the pipe.
C17_NoWorkAfterFailedWrite ==
    /\ [](hist.writeFailed => (ppc \in {"close", "done"} /\ pipe = <<>>))
    /\ [][hist.writeFailed
             => (srcPos' = srcPos /\ n' = n /\ pipe' = pipe
                   /\ ppc' \in {ppc, "done"})]_vars

C17_Witness ==
    /\ hist.writeFailed /\ ppc = "done" /\ ~m_writePipe
    /\ srcPos < srcLen /\ cpc = "dtor_wait"

\* C18: the position is the number of frames readSamples has returned in
\* total (received holds their bytes); it never decreases, no step of the
\* producer thread changes it, and it never exceeds the frames the producer
\* has pulled from upstream.
C18_Position ==
    /\ [](cpc # "off" =>
            /\ m_position * bpf = Len(received)
            /\ m_position <= srcPos)
    /\ [][m_position' >= m_position]_vars
    /\ [][inputThreadProc => m_position' = m_position]_vars

C18_Witness ==
    /\ m_position = srcLen /\ srcLen >= 2 /\ bpf >= 2
    /\ last.ret >= 1 /\ last.ret < m_position

\* C19: with a finite upstream and a consumer that keeps reading with
\* positive sizes, the producer eventually gets 0 from upstream, closes its
\* write end and ends, and the consumer eventually gets 0 from readSamples;
\* the thread ends only from the step that closes the write end.
C19_DrainEnds ==
    /\ <>(ppc = "done" /\ ~m_writePipe /\ n = 0 /\ srcPos = srcLen)
    /\ <>(ReadReturnedZero /\ received = DirectRead)
    /\ [](ppc = "done" => ~m_writePipe)
    /\ [][(ppc' = "done" /\ ppc # "done") => ppc = "close"]_vars

C19_Witness ==
    /\ ReadReturnedZero /\ ppc = "done" /\ ~m_writePipe /\ n = 0
    /\ srcLen >= 2 /\ received = DirectRead /\ hist.blocked /\ ~m_readPipe

====
